---- MODULE Spec2Model ----
(***************************************************************************)
(* A model of the variational autoencoder (VAE) extensions of pylearn2:    *)
(*   models/vae/__init__.py  VAE, log_sum_exp                              *)
(*   models/vae/prior.py     Prior, DiagonalGaussianPrior                  *)
(*   models/vae/kl.py        KLIntegrator, DiagonalGaussianPriorPosteriorKL*)
(*   costs/vae.py            VAECriterion, ImportanceSamplingCriterion     *)
(* and of the hook of the recurrent sandbox into the MLP framework:        *)
(*   sandbox/rnn/models/mlp_hook.py  RNNWrapper                            *)
(*                                                                         *)
(* Python objects are records, an attribute an object does not have is     *)
(* Unset, a raised exception is the "exc" field of the last call.  Theano  *)
(* expressions are evaluated over exact rationals; exp and log are taken   *)
(* to base 2 on an integer grid, so that every value is exact.             *)
(***************************************************************************)
EXTENDS Integers, Sequences, FiniteSets, TLC

VARIABLES
    vae,        \* VAE objects: construction status, rng, batch_size, parameters
    component,  \* the Visible / Latent objects handed to VAE.__init__
    prior,      \* Prior objects: the attributes set_vae assigns
    criterion,  \* VAECriterion / ImportanceSamplingCriterion objects
    klass,      \* the classes created with the metaclass RNNWrapper
    layer,      \* a layer object, an instance of one of these classes
    call        \* the last call: operation, arguments, result or exception

vars == <<vae, component, prior, criterion, klass, layer, call>>

None == "None"
Unset == "<no attribute>"
NoCall == [op |-> "none"]
NoCriterion == <<>>

\* How many classes are ever created with the metaclass.
MaxClasses == 3
ClassIds == {"class" \o ToString(i) : i \in 1..MaxClasses}
NoClass == [name |-> None]
NoLayer == [class |-> None]

(***************************************************************************)
(* Lifecycle: VAE construction and the binding of sub-objects to a VAE     *)
(***************************************************************************)

\* How many VAE objects are ever created.
MaxVAEs == 2
VAEIds == {"vae" \o ToString(i) : i \in 1..MaxVAEs}

\* models/vae/__init__.py:32
default_seed == 2014 + 9 + 20

Priors == {"prior1", "prior2"}
Latents == {"latentWb", "latentWW"}
Visibles == {"visibleVc", "visiblecb", "visibleVV"}
Components == Latents \cup Visibles

\* latent.get_params() / visible.get_params(): the names of the parameters a
\* component holds once its initialize_parameters has run, which its
\* configuration fixes.
get_params(c) ==
    CASE c = "latentWb" -> <<"W", "b">>
      [] c = "latentWW" -> <<"W", "W">>
      [] c = "visibleVc" -> <<"V", "c">>
      [] c = "visiblecb" -> <<"c", "b">>
      [] c = "visibleVV" -> <<"V", "V">>

BatchSizes == {None, "100"}
Seeds == {None}

\* make_np_rng(seed, default_seed, ...): a RandomState seeded by seed, or by
\* default_seed when seed is None; "draws" counts the numbers drawn from it.
make_np_rng(seed) ==
    [seed |-> IF seed = None THEN ToString(default_seed) ELSE seed, draws |-> 0]

\* int(rng.randint(2^30)): the next number of the stream, a function of the
\* seed and of how many numbers were drawn before.
randint(rng) == "randint(" \o rng.seed \o ", " \o ToString(rng.draws) \o ")"

\* make_theano_rng(seed, which_method=...)
make_theano_rng(seed) == "theano_rng(" \o seed \o ")"

UnbornVAE == [status |-> "unborn"]
UnboundPrior == [vae |-> Unset, rng |-> Unset, theano_rng |-> Unset,
                 batch_size |-> Unset]
UnboundComponent == [vae |-> Unset]

AlreadyBound == "RuntimeError: this Prior instance already belongs to another VAE"

\* Prior.get_vae: the attribute vae, or None without it.
get_vae(p) == IF p.vae # Unset THEN p.vae ELSE None

\* Prior.set_vae on the Prior object p with the VAE v, whose record is vrec:
\* the Prior afterwards, the VAE's rng afterwards, the exception raised.
\* (below, first without the test of get_vae)
set_vae_unguarded(p, v, vrec) ==
    [prior |-> [vae |-> v,
                rng |-> "rng of " \o v,
                theano_rng |-> make_theano_rng(randint(vrec.rng)),
                batch_size |-> vrec.batch_size],
     rng |-> [vrec.rng EXCEPT !.draws = @ + 1],
     exc |-> None]

set_vae(p, v, vrec) ==
    IF get_vae(p) # None
    THEN [prior |-> p, rng |-> vrec.rng, exc |-> AlreadyBound]
    ELSE [prior |-> [vae |-> v,
                     rng |-> "rng of " \o v,
                     theano_rng |-> make_theano_rng(randint(vrec.rng)),
                     batch_size |-> vrec.batch_size],
          rng |-> [vrec.rng EXCEPT !.draws = @ + 1],
          exc |-> None]

\* visible.set_vae / latent.set_vae: a component is attached to one VAE and
\* attaching it again fails; an attachment draws the component's theano seed
\* from the VAE's rng.
Component_set_vae(c, v, vrec) ==
    IF c.vae # Unset
    THEN [component |-> c, rng |-> vrec.rng,
          exc |-> "RuntimeError: already bound"]
    ELSE [component |-> [vae |-> v],
          rng |-> [vrec.rng EXCEPT !.draws = @ + 1],
          exc |-> None]

\* The check with each name compared to the one before it only.
check_names_adjacent(params, i, names) ==
    IF \E j \in 1..(Len(params) - 1) : params[j] = params[j + 1]
    THEN "Exception: no two paramameters must share the same name: "
    ELSE None

\* The loop of VAE.__init__ over self._params: the exception it raises at the
\* first parameter whose name was seen before, None when it ends.
RECURSIVE check_names(_, _, _)
check_names(params, i, names) ==
    IF i > Len(params) THEN None
    ELSE IF params[i] \notin names
         THEN check_names(params, i + 1, names \cup {params[i]})
         ELSE "Exception: no two paramameters must share the same name: "
              \o params[i]

\* The construction with the attachments undone when the name check fails.
VAE__init__rollback(v, visible, latent, batch_size, seed) ==
    LET self0 == [status |-> "constructing", visible |-> visible,
                  latent |-> latent, batch_size |-> batch_size,
                  rng |-> make_np_rng(seed)]
        r1 == Component_set_vae(component[visible], v, self0)
        self1 == [self0 EXCEPT !.rng = r1.rng]
        r2 == Component_set_vae(component[latent], v, self1)
        self2 == [self1 EXCEPT !.rng = r2.rng]
        enc == get_params(latent)
        dec == get_params(visible)
        self3 == [status |-> "constructing", visible |-> visible,
                  latent |-> latent, batch_size |-> batch_size,
                  rng |-> self2.rng,
                  _encoding_params |-> enc, _decoding_params |-> dec,
                  _params |-> enc \o dec]
        exc3 == check_names(self3._params, 1, {})
    IN  IF r1.exc # None
        THEN [self |-> [self0 EXCEPT !.status = "failed"],
              visible |-> component[visible], latent |-> component[latent],
              exc |-> r1.exc]
        ELSE IF r2.exc # None
        THEN [self |-> [self1 EXCEPT !.status = "failed"],
              visible |-> r1.component, latent |-> component[latent],
              exc |-> r2.exc]
        ELSE IF exc3 # None
        THEN [self |-> [self3 EXCEPT !.status = "failed"],
              visible |-> component[visible], latent |-> component[latent],
              exc |-> exc3]
        ELSE [self |-> [self3 EXCEPT !.status = "constructed"],
              visible |-> r1.component, latent |-> r2.component,
              exc |-> exc3]

\* VAE.__init__(nvis, visible, latent, nhid, batch_size, seed) on the fresh
\* object v: the object, the two components and the exception afterwards.
\* An exception leaves every assignment made before it in place.
VAE__init__(v, visible, latent, batch_size, seed) ==
    LET self0 == [status |-> "constructing", visible |-> visible,
                  latent |-> latent, batch_size |-> batch_size,
                  rng |-> make_np_rng(seed)]
        r1 == Component_set_vae(component[visible], v, self0)
        self1 == [self0 EXCEPT !.rng = r1.rng]
        r2 == Component_set_vae(component[latent], v, self1)
        self2 == [self1 EXCEPT !.rng = r2.rng]
        enc == get_params(latent)
        dec == get_params(visible)
        self3 == [status |-> "constructing", visible |-> visible,
                  latent |-> latent, batch_size |-> batch_size,
                  rng |-> self2.rng,
                  _encoding_params |-> enc, _decoding_params |-> dec,
                  _params |-> enc \o dec]
        exc3 == check_names(self3._params, 1, {})
    IN  IF r1.exc # None
        THEN [self |-> [self0 EXCEPT !.status = "failed"],
              visible |-> component[visible], latent |-> component[latent],
              exc |-> r1.exc]
        ELSE IF r2.exc # None
        THEN [self |-> [self1 EXCEPT !.status = "failed"],
              visible |-> r1.component, latent |-> component[latent],
              exc |-> r2.exc]
        ELSE [self |-> [self3 EXCEPT !.status =
                            IF exc3 = None THEN "constructed" ELSE "failed"],
              visible |-> r1.component, latent |-> r2.component,
              exc |-> exc3]

Born(v) == vae[v].status # "unborn"

\* The next VAE object to be created.
Fresh(v) ==
    /\ ~Born(v)
    /\ \A i \in 1..MaxVAEs :
          ("vae" \o ToString(i)) # v /\ ~Born("vae" \o ToString(i))
             => \E j \in 1..(i - 1) : ("vae" \o ToString(j)) = v

InitLifecycle ==
    /\ vae = [v \in VAEIds |-> UnbornVAE]
    /\ component = [c \in Components |-> UnboundComponent]
    /\ prior = [p \in Priors |-> UnboundPrior]

InitIdle ==
    /\ criterion = NoCriterion
    /\ klass = [c \in ClassIds |-> NoClass]
    /\ layer = NoLayer
    /\ call = NoCall

Init == InitLifecycle /\ InitIdle

\* A caller evaluates VAE(nvis, visible, latent, nhid, batch_size, seed).
NewVAE ==
    \E v \in VAEIds, visible \in Visibles, latent \in Latents,
       batch_size \in BatchSizes, seed \in Seeds :
        /\ Fresh(v)
        /\ LET r == VAE__init__(v, visible, latent, batch_size, seed)
           IN  /\ vae' = [vae EXCEPT ![v] = r.self]
               /\ component' = [component EXCEPT ![visible] = r.visible,
                                                 ![latent] = r.latent]
               /\ call' = [op |-> "VAE.__init__", self |-> v,
                           visible |-> visible, latent |-> latent,
                           exc |-> r.exc]
        /\ UNCHANGED <<prior, criterion, klass, layer>>

\* A caller evaluates p.set_vae(v) with a VAE object v.
CallSetVae ==
    \E p \in Priors, v \in VAEIds :
        /\ Born(v)
        /\ LET r == set_vae(prior[p], v, vae[v])
           IN  /\ prior' = [prior EXCEPT ![p] = r.prior]
               /\ vae' = [vae EXCEPT ![v].rng = r.rng]
               /\ call' = [op |-> "Prior.set_vae", self |-> p, vae |-> v,
                           exc |-> r.exc]
        /\ UNCHANGED <<component, criterion, klass, layer>>

Next == NewVAE \/ CallSetVae

Spec == Init /\ [][Next]_vars

(***************************************************************************)
(* Arithmetic of the Theano expressions: exact rationals <<n, d>>, d > 0,  *)
(* in lowest terms.  T.exp is 2^k on integers k.                           *)
(***************************************************************************)

Abs(n) == IF n < 0 THEN -n ELSE n

RECURSIVE GCD(_, _)
GCD(a, b) == IF b = 0 THEN a ELSE GCD(b, a % b)

Rat(n, d) ==
    LET g == GCD(Abs(n), Abs(d))
        sgn == IF d < 0 THEN -1 ELSE 1
    IN  <<sgn * (n \div g), sgn * (d \div g)>>

FromInt(k) == <<k, 1>>
RAdd(a, b) == Rat(a[1] * b[2] + b[1] * a[2], a[2] * b[2])
RSub(a, b) == Rat(a[1] * b[2] - b[1] * a[2], a[2] * b[2])
RMul(a, b) == Rat(a[1] * b[1], a[2] * b[2])
RDiv(a, b) == Rat(a[1] * b[2], a[2] * b[1])
RLeq(a, b) == a[1] * b[2] <= b[1] * a[2]
Half == <<1, 2>>
Zero == <<0, 1>>
One == <<1, 1>>

\* T.exp(k), to base 2.
Exp(k) == IF k >= 0 THEN <<2^k, 1>> ELSE <<1, 2^(-k)>>

RECURSIVE SumSeq(_, _)
\* The sum of the rationals s[i..Len(s)].
SumSeq(s, i) == IF i > Len(s) THEN Zero ELSE RAdd(s[i], SumSeq(s, i + 1))

(***************************************************************************)
(* kl.py: the analytical KL divergence of a diagonal gaussian posterior    *)
(* from a diagonal gaussian prior                                          *)
(***************************************************************************)

\* The dimension of the latent space.
nhid == 2
LatentDims == 1..nhid

\* The classes of the objects handed in as prior and as posterior.  Subclass
\* is the subclass relation, a class included.
PriorClasses == {"DiagonalGaussianPrior", "MyDiagonalGaussianPrior", "UniformPrior"}
PosteriorClasses == {"DiagonalGaussianPosterior", "MixturePosterior"}
Subclass(c, d) ==
    \/ c = d
    \/ c = "MyDiagonalGaussianPrior" /\ d = "DiagonalGaussianPrior"

\* isinstance(obj, cls) for an object of class c
isinstance(c, cls) == Subclass(c, cls)
\* str(obj.__class__) for an instance of class c
str_class(c) == "<class '" \o c \o "'>"
\* str(cls.__class__) for a class cls: the class of a class is its metaclass,
\* never the class.
str_class_of_class(cls) == "<metaclass of '" \o cls \o "'>"

\* DiagonalGaussianPriorPosteriorKL.prior_class, .posterior_class
prior_class == "DiagonalGaussianPrior"
posterior_class == "DiagonalGaussianPosterior"

\* KLIntegrator._validate_prior_posterior: the exception raised, or None.
\* The exception records the role and the two class names of its message.
_validate_prior_posterior(prior_cls, posterior_cls) ==
    IF ~isinstance(prior_cls, prior_class)
    THEN [type |-> "ValueError", role |-> "prior",
          passed |-> str_class(prior_cls),
          expected |-> str_class_of_class(prior_class)]
    ELSE IF ~isinstance(posterior_cls, posterior_class)
    THEN [type |-> "ValueError", role |-> "posterior",
          passed |-> str_class(posterior_cls),
          expected |-> str_class_of_class(prior_class)]
    ELSE [type |-> None]

\* (below, first without the division by the prior's variance)
kl_missing_prior_sigma(posterior_mu, posterior_log_sigma, prior_mu, prior_log_sigma) ==
    RSub(RAdd(FromInt(prior_log_sigma - posterior_log_sigma),
              RMul(Half,
                   RAdd(Exp(2 * posterior_log_sigma),
                        FromInt((posterior_mu - prior_mu) ^ 2)))),
         Half)

\* One entry of the expression per_component_kl_divergence returns.
kl_component(posterior_mu, posterior_log_sigma, prior_mu, prior_log_sigma) ==
    RSub(RAdd(FromInt(prior_log_sigma - posterior_log_sigma),
              RDiv(RMul(Half,
                        RAdd(Exp(2 * posterior_log_sigma),
                             FromInt((posterior_mu - prior_mu) ^ 2))),
                   Exp(2 * prior_log_sigma))),
         Half)

\* DiagonalGaussianPriorPosteriorKL.per_component_kl_divergence.  phi is
\* (posterior_mu, posterior_log_sigma), one row per example; theta is
\* (prior_mu, prior_log_sigma), broadcast over the examples.
per_component_kl_divergence(phi, theta, prior_cls, posterior_cls) ==
    LET exc == _validate_prior_posterior(prior_cls, posterior_cls)
    IN  IF exc.type # None THEN [exc |-> exc]
        ELSE [exc |-> exc,
              value |-> [b \in DOMAIN phi[1] |->
                          [i \in LatentDims |->
                             kl_component(phi[1][b][i], phi[2][b][i],
                                          theta[1][i], theta[2][i])]]]

\* DiagonalGaussianPriorPosteriorKL.kl_divergence: the sum over axis 1.
kl_divergence(phi, theta, prior_cls, posterior_cls) ==
    LET r == per_component_kl_divergence(phi, theta, prior_cls, posterior_cls)
    IN  IF r.exc.type # None THEN r
        ELSE [exc |-> r.exc,
              value |-> [b \in DOMAIN r.value |-> SumSeq(r.value[b], 1)]]

\* The values the means and the log-sigmas take, and the examples of a batch.
Mus == {0, 1}
LogSigmas == {-1, 0, 1}
Examples == {1}
Vectors(S) == [LatentDims -> S]

\* A caller computes a KL divergence with a DiagonalGaussianPriorPosteriorKL;
\* the expression is built once, from the arguments of that call.
CallKL ==
    /\ call = NoCall
    /\ \E method \in {"kl_divergence", "per_component_kl_divergence"},
          prior_cls \in PriorClasses, posterior_cls \in PosteriorClasses,
          posterior_mu \in [Examples -> Vectors(Mus)],
          posterior_log_sigma \in [Examples -> Vectors(LogSigmas)],
          prior_mu \in Vectors(Mus), prior_log_sigma \in Vectors(LogSigmas) :
           LET phi == <<posterior_mu, posterior_log_sigma>>
               theta == <<prior_mu, prior_log_sigma>>
               r == IF method = "kl_divergence"
                    THEN kl_divergence(phi, theta, prior_cls, posterior_cls)
                    ELSE per_component_kl_divergence(phi, theta, prior_cls,
                                                     posterior_cls)
           IN  call' = [op |-> method, phi |-> phi, theta |-> theta,
                        prior |-> prior_cls, posterior |-> posterior_cls,
                        result |-> r]
    /\ UNCHANGED <<vae, component, prior, criterion, klass, layer>>

NextKL == CallKL

SpecKL == Init /\ [][NextKL]_vars

(***************************************************************************)
(* __init__.py: log_sum_exp and the importance sampling approximation      *)
(***************************************************************************)

\* The largest k whose exp is a finite float; exp of more is inf, exp of
\* less than -ExpMax is 0.
ExpMax == 3
Inf == <<1, 0>>

\* T.exp(k) of the floats.
FloatExp(k) ==
    IF k > ExpMax THEN Inf
    ELSE IF k < -ExpMax THEN Zero
    ELSE Exp(k)

\* a + b where either may be inf
FloatAdd(a, b) == IF a[2] = 0 \/ b[2] = 0 THEN Inf ELSE RAdd(a, b)

\* The logarithm to base 2 of a rational q >= 1 is held exactly, as
\* int + log2(frac) with 1 <= frac < 2; an integer k is [int |-> k, frac |-> 1].
RECURSIVE LogNormal(_, _)
LogNormal(k, q) ==
    IF q[2] = 0 \/ q[1] <= 0 THEN [int |-> k, frac |-> q]
    ELSE IF q[1] >= 2 * q[2] THEN LogNormal(k + 1, RMul(q, Half))
    ELSE IF q[1] < q[2] THEN LogNormal(k - 1, RMul(q, <<2, 1>>))
    ELSE [int |-> k, frac |-> q]

\* T.log(q)
Log(q) == LogNormal(0, q)
LogOfInt(k) == [int |-> k, frac |-> One]
\* x + k and x - y on logarithms
LogPlusInt(x, k) == [x EXCEPT !.int = @ + k]
LogMinus(x, y) == LogNormal(x.int - y.int, RDiv(x.frac, y.frac))

RECURSIVE MaxOf(_, _)
\* T.max over the vector v[i..Len(v)]
MaxOf(v, i) ==
    IF i = Len(v) THEN v[i]
    ELSE LET m == MaxOf(v, i + 1) IN IF v[i] >= m THEN v[i] ELSE m

RECURSIVE FloatSum(_, _)
FloatSum(s, i) == IF i > Len(s) THEN Zero ELSE FloatAdd(s[i], FloatSum(s, i + 1))

\* (below, first with A itself handed to exp)
exp_arguments_unshifted(v) == v

\* A - A_max along one slice v of the reduced axis: what exp is applied to.
exp_arguments(v) == [i \in DOMAIN v |-> v[i] - MaxOf(v, 1)]

\* (below, first without A_max added back)
log_sum_exp_slice_no_max(v) ==
    LET args == exp_arguments(v)
        exps == [i \in DOMAIN v |-> FloatExp(args[i])]
    IN  [args |-> args, exps |-> exps, value |-> Log(FloatSum(exps, 1))]

\* log_sum_exp along one slice v of the reduced axis, with the values it
\* hands to exp and those exp returns.
log_sum_exp_slice(v) ==
    LET args == exp_arguments(v)
        exps == [i \in DOMAIN v |-> FloatExp(args[i])]
    IN  [args |-> args, exps |-> exps,
         value |-> LogPlusInt(Log(FloatSum(exps, 1)), MaxOf(v, 1))]

\* The slices of the matrix A (a sequence of rows) along axis 0 (its columns)
\* or axis 1 (its rows).
Slices(A, axis) ==
    IF axis = 0
    THEN [b \in DOMAIN A[1] |-> [s \in DOMAIN A |-> A[s][b]]]
    ELSE A

\* log_sum_exp(A, axis): one entry per slice (B.sum(axis) drops the axis that
\* keepdims kept, of length 1).
log_sum_exp(A, axis) ==
    LET sl == Slices(A, axis)
    IN  [j \in DOMAIN sl |-> log_sum_exp_slice(sl[j])]

\* VAE.log_likelihood_approximation from the three log-probabilities its
\* collaborators return, each of shape (num_samples, batch).
log_likelihood_approximation(log_p_z, log_p_x_z, log_q_z_x, num_samples) ==
    LET w == [s \in DOMAIN log_p_z |->
                [b \in DOMAIN log_p_z[s] |->
                    log_p_z[s][b] + log_p_x_z[s][b] - log_q_z_x[s][b]]]
        lse == log_sum_exp(w, 0)
    IN  [b \in DOMAIN lse |->
            LogMinus(lse[b].value, Log(FromInt(num_samples)))]

\* The number of samples drawn for one example.
MaxSamples == 2
\* The examples of a batch X.
Batch == 1..2
\* Inputs of small and of large magnitude, next to ExpMax.
Big == 10 * ExpMax
Magnitudes == {-Big, 0, 1, Big}
Shifts == {-Big, Big}

\* A caller evaluates log_sum_exp(A, axis) and log_sum_exp(A + c, axis), c
\* constant along the reduced axis.
CallLogSumExp ==
    /\ call = NoCall
    /\ \E rows \in 1..MaxSamples, axis \in {0, 1} :
       \E A \in [1..rows -> [Batch -> Magnitudes]] :
       \E c \in [DOMAIN Slices(A, axis) -> Shifts] :
          LET Ac == [s \in DOMAIN A |-> [b \in DOMAIN A[s] |->
                        A[s][b] + (IF axis = 0 THEN c[b] ELSE c[s])]]
          IN  call' = [op |-> "log_sum_exp", A |-> A, axis |-> axis, c |-> c,
                       result |-> log_sum_exp(A, axis),
                       shifted |-> log_sum_exp(Ac, axis)]
    /\ UNCHANGED <<vae, component, prior, criterion, klass, layer>>

LogProbs == {-1, 0}

\* A caller evaluates vae.log_likelihood_approximation(X, num_samples); the
\* collaborators return the three log-probabilities.
CallLogLikelihoodApproximation ==
    /\ call = NoCall
    /\ \E num_samples \in 1..MaxSamples :
       \E log_p_z \in [1..num_samples -> [Batch -> LogProbs]],
          log_p_x_z \in [1..num_samples -> [Batch -> {-Big, -1}]],
          log_q_z_x \in {[s \in 1..num_samples |-> [b \in Batch |-> q]] :
                           q \in LogProbs} :
          call' = [op |-> "log_likelihood_approximation",
                   num_samples |-> num_samples,
                   log_p_z |-> log_p_z, log_p_x_z |-> log_p_x_z,
                   log_q_z_x |-> log_q_z_x,
                   result |-> log_likelihood_approximation(
                                 log_p_z, log_p_x_z, log_q_z_x, num_samples)]
    /\ UNCHANGED <<vae, component, prior, criterion, klass, layer>>

(***************************************************************************)
(* __init__.py: VAE.sample and VAE.reconstruct.  What the collaborators    *)
(* (latent, visible) return is kept as a term over their arguments; a      *)
(* random draw is an argument of the collaborator that draws.              *)
(***************************************************************************)

\* An optional argument the caller does not pass.
Omitted == "<omitted>"
Optional == {Omitted, "True", "False"}
\* def sample(self, num_samples, return_sample_means=True, **kwargs)
\* def reconstruct(self, X, noisy_encoding=False, return_sample_means=True)
return_sample_means_default == "True"
noisy_encoding_default == "False"
ArgOr(arg, default) == IF arg = Omitted THEN default ELSE arg

\* The numbers a theano_rng draws, and the inputs X.
Noise == {-1, 0, 1}
Inputs == {"X1", "X2"}

sample_from_epsilon(draw) == draw
encode_phi(X) == [fn |-> "encode_phi", X |-> X]
sample_from_q_z_given_x(epsilon, phi) ==
    [fn |-> "sample_from_q_z_given_x", epsilon |-> epsilon, phi |-> phi]
sample_from_p_z(num_samples, draw) ==
    [fn |-> "sample_from_p_z", num_samples |-> num_samples, noise |-> draw]
decode_theta(z) == [fn |-> "decode_theta", z |-> z]
sample_from_p_x_given_z(theta, draw) ==
    [fn |-> "sample_from_p_x_given_z", theta |-> theta, noise |-> draw]
means_from_theta(theta) == [fn |-> "means_from_theta", theta |-> theta]

\* VAE.sample; z_draw and x_draw are what the rng yields in the two draws.
sample(num_samples, return_sample_means, z_draw, x_draw) ==
    LET z == sample_from_p_z(num_samples, z_draw)
        theta == decode_theta(z)
        X == sample_from_p_x_given_z(theta, x_draw)
    IN  IF ArgOr(return_sample_means, return_sample_means_default) = "True"
        THEN [kind |-> "tuple", samples |-> X, means |-> means_from_theta(theta)]
        ELSE [kind |-> "tensor", samples |-> X]

\* (below, first with the noise never zeroed)
reconstruct_keeping_noise(X, noisy_encoding, return_sample_means, epsilon_draw, x_draw) ==
    LET epsilon == sample_from_epsilon(epsilon_draw)
        phi == encode_phi(X)
        z == sample_from_q_z_given_x(epsilon, phi)
        theta == decode_theta(z)
        reconstructed_X == sample_from_p_x_given_z(theta, x_draw)
    IN  IF ArgOr(return_sample_means, return_sample_means_default) = "True"
        THEN [kind |-> "tuple", samples |-> reconstructed_X,
              means |-> means_from_theta(theta)]
        ELSE [kind |-> "tensor", samples |-> reconstructed_X]

\* VAE.reconstruct; epsilon_draw and x_draw are what the rng yields.
reconstruct(X, noisy_encoding, return_sample_means, epsilon_draw, x_draw) ==
    LET epsilon0 == sample_from_epsilon(epsilon_draw)
        epsilon == IF ArgOr(noisy_encoding, noisy_encoding_default) # "True"
                   THEN epsilon0 * 0
                   ELSE epsilon0
        phi == encode_phi(X)
        z == sample_from_q_z_given_x(epsilon, phi)
        theta == decode_theta(z)
        reconstructed_X == sample_from_p_x_given_z(theta, x_draw)
    IN  IF ArgOr(return_sample_means, return_sample_means_default) = "True"
        THEN [kind |-> "tuple", samples |-> reconstructed_X,
              means |-> means_from_theta(theta)]
        ELSE [kind |-> "tensor", samples |-> reconstructed_X]

\* A caller evaluates vae.sample(num_samples[, return_sample_means]).
CallSample ==
    /\ call = NoCall
    /\ \E num_samples \in 1..MaxSamples, return_sample_means \in Optional,
          z_draw \in Noise, x_draw \in Noise :
          call' = [op |-> "sample", num_samples |-> num_samples,
                   return_sample_means |-> return_sample_means,
                   z_draw |-> z_draw, x_draw |-> x_draw,
                   result |-> sample(num_samples, return_sample_means,
                                     z_draw, x_draw)]
    /\ UNCHANGED <<vae, component, prior, criterion, klass, layer>>

\* A caller evaluates vae.reconstruct(X[, noisy_encoding][, return_sample_means]).
CallReconstruct ==
    /\ call = NoCall
    /\ \E X \in Inputs, noisy_encoding \in Optional,
          return_sample_means \in Optional,
          epsilon_draw \in Noise, x_draw \in Noise :
          call' = [op |-> "reconstruct", X |-> X,
                   noisy_encoding |-> noisy_encoding,
                   return_sample_means |-> return_sample_means,
                   epsilon_draw |-> epsilon_draw, x_draw |-> x_draw,
                   result |-> reconstruct(X, noisy_encoding,
                                 return_sample_means, epsilon_draw, x_draw)]
    /\ UNCHANGED <<vae, component, prior, criterion, klass, layer>>

\* The caller repeats the call, with the same arguments and parameters; the
\* rng has moved on.
CallReconstructAgain ==
    /\ call.op = "reconstruct"
    /\ \E epsilon_draw \in Noise, x_draw \in Noise :
          call' = [op |-> "reconstruct again", X |-> call.X,
                   noisy_encoding |-> call.noisy_encoding,
                   return_sample_means |-> call.return_sample_means,
                   epsilon_draw |-> call.epsilon_draw,
                   x_draw |-> call.x_draw,
                   result |-> call.result,
                   epsilon_draw_again |-> epsilon_draw,
                   x_draw_again |-> x_draw,
                   again |-> reconstruct(call.X, call.noisy_encoding,
                                call.return_sample_means, epsilon_draw, x_draw)]
    /\ UNCHANGED <<vae, component, prior, criterion, klass, layer>>

NextVAE ==
    \/ CallLogSumExp
    \/ CallLogLikelihoodApproximation
    \/ CallSample
    \/ CallReconstruct
    \/ CallReconstructAgain

SpecVAE == Init /\ [][NextVAE]_vars

(***************************************************************************)
(* Claims on sample and reconstruct                                        *)
(***************************************************************************)

Noisy == ArgOr(call.noisy_encoding, noisy_encoding_default) = "True"
\* The noise a result's z was computed from.
EpsilonOf(result) == result.samples.theta.z.epsilon

\* C6, as claimed: without noisy encoding, two calls with the same X and the
\* same parameters return the same output, samples included.
C6_SameOutput ==
    call.op = "reconstruct again" /\ ~Noisy => call.again = call.result

\* C6, amended: without noisy encoding the noise handed to the posterior is 0
\* whatever the rng yields, so the two calls decode the same theta and return
\* the same means, and their samples are drawn from the same p(x | z), each
\* with the draw of its own call; with noisy encoding the noise handed to the
\* posterior is the one drawn.
C6_SameMeans ==
    /\ call.op = "reconstruct again" /\ ~Noisy =>
          /\ EpsilonOf(call.result) = 0
          /\ EpsilonOf(call.again) = 0
          /\ call.again.samples.theta = call.result.samples.theta
          /\ call.again.kind = call.result.kind
          /\ call.result.kind = "tuple" => call.again.means = call.result.means
          /\ call.result.samples.noise = call.x_draw
          /\ call.again.samples.noise = call.x_draw_again
    /\ call.op = "reconstruct again" /\ Noisy =>
          /\ EpsilonOf(call.result) = call.epsilon_draw
          /\ EpsilonOf(call.again) = call.epsilon_draw_again

\* C6's case: a reconstruction without noisy encoding was repeated, and the
\* rng yielded other numbers the second time.
C6_Witness ==
    /\ call.op = "reconstruct again"
    /\ ~Noisy
    /\ call.result.kind = "tuple"
    /\ call.epsilon_draw = 1
    /\ call.epsilon_draw_again = -1
    /\ call.x_draw # call.x_draw_again

\* C10: sample and reconstruct return the pair (X, means) when
\* return_sample_means is passed as true and X alone otherwise, also when it
\* is not passed.
C10_MeansOnlyOnRequest ==
    call.op \in {"sample", "reconstruct"} =>
        (call.result.kind = "tuple" <=> call.return_sample_means = "True")

(***************************************************************************)
(* costs/vae.py: the criteria, and VAE.log_likelihood_lower_bound          *)
(***************************************************************************)

\* int(q): truncation towards zero
int(q) == IF q[1] >= 0 THEN q[1] \div q[2] ELSE -((-q[1]) \div q[2])

\* (below, first asserting num_samples > 0)
VAECriterion__init__positive(num_samples) ==
    IF ~(num_samples[1] > 0)
    THEN [exc |-> "AssertionError"]
    ELSE [exc |-> None,
          self |-> [class |-> "VAECriterion", num_samples |-> int(num_samples)]]

\* VAECriterion.__init__(num_samples), num_samples a rational
VAECriterion__init__(num_samples) ==
    IF ~RLeq(One, num_samples)
    THEN [exc |-> "AssertionError"]
    ELSE [exc |-> None,
          self |-> [class |-> "VAECriterion", num_samples |-> int(num_samples)]]

\* ImportanceSamplingCriterion.__init__(num_samples)
ImportanceSamplingCriterion__init__(num_samples) ==
    IF ~RLeq(One, num_samples)
    THEN [exc |-> "AssertionError"]
    ELSE [exc |-> None,
          self |-> [class |-> "ImportanceSamplingCriterion",
                    num_samples |-> int(num_samples)]]

\* The dimensions of the visible space.
VisibleDims == 1..2

\* tensor.mean() of a vector of rationals
Mean(v) == RDiv(SumSeq(v, 1), FromInt(Len(v)))

\* VAE.log_likelihood_lower_bound(X, num_samples, **keywords) from what the
\* collaborators return: kl_divergence_term of shape (batch) and
\* expectation_term of shape (num_samples, batch, nvis).  The method takes no
\* keyword but X and num_samples.
log_likelihood_lower_bound(num_samples, keywords, kl_divergence_term, expectation) ==
    IF keywords # {}
    THEN [exc |-> "TypeError: log_likelihood_lower_bound() got an unexpected keyword argument"]
    ELSE LET expectation_term ==
                 [b \in Batch |->
                    SumSeq([d \in VisibleDims |->
                              Mean([s \in 1..num_samples |->
                                      FromInt(expectation[s][b][d])])], 1)]
         IN  [exc |-> None,
              value |-> [b \in Batch |->
                           RAdd(RSub(Zero, FromInt(kl_divergence_term[b])),
                                expectation_term[b])]]

\* VAECriterion.expr(model, data)
VAECriterion_expr(self, kl_divergence_term, expectation) ==
    LET r == log_likelihood_lower_bound(self.num_samples, {},
                                        kl_divergence_term, expectation)
    IN  IF r.exc # None THEN r
        ELSE [exc |-> None, lower_bound |-> r.value,
              value |-> RSub(Zero, Mean(r.value))]

\* VAECriterion.get_monitoring_channels(model, data)
VAECriterion_get_monitoring_channels(self, kl_divergence_term, expectation) ==
    LET r == log_likelihood_lower_bound(self.num_samples, {"separate"},
                                        kl_divergence_term, expectation)
    IN  IF r.exc # None THEN r
        ELSE [exc |-> None,
              channels |-> [kl_divergence |-> Mean(r.value[1]),
                            expectation_term |-> Mean(r.value[2])]]

\* The values handed to a constructor as num_samples: the halves from -1 to
\* MaxSamples + 1/2.
NumSamplesArgs == {Rat(k, 2) : k \in (-2)..(2 * MaxSamples + 1)}

\* The KL terms the latent collaborator returns: 1 for one example, 0 for the
\* others.
KLTerms == {[b \in Batch |-> IF b = k THEN 1 ELSE 0] : k \in Batch}

Evaluated == call.op \in {"VAECriterion.expr", "VAECriterion.get_monitoring_channels"}

\* A caller evaluates VAECriterion(num_samples).
NewVAECriterion ==
    /\ ~Evaluated
    /\ \E num_samples \in NumSamplesArgs :
          LET r == VAECriterion__init__(num_samples)
          IN  /\ criterion' = IF r.exc = None THEN r.self ELSE criterion
              /\ call' = [op |-> "VAECriterion.__init__",
                          num_samples |-> num_samples, exc |-> r.exc]
    /\ UNCHANGED <<vae, component, prior, klass, layer>>

\* A caller evaluates ImportanceSamplingCriterion(num_samples).
NewImportanceSamplingCriterion ==
    /\ ~Evaluated
    /\ \E num_samples \in NumSamplesArgs :
          LET r == ImportanceSamplingCriterion__init__(num_samples)
          IN  /\ criterion' = IF r.exc = None THEN r.self ELSE criterion
              /\ call' = [op |-> "ImportanceSamplingCriterion.__init__",
                          num_samples |-> num_samples, exc |-> r.exc]
    /\ UNCHANGED <<vae, component, prior, klass, layer>>

HoldsVAECriterion ==
    /\ criterion # NoCriterion
    /\ criterion.class = "VAECriterion"

\* The training algorithm evaluates criterion.expr(model, data); the model's
\* collaborators return the KL term and the expectation term.
CallExpr ==
    /\ ~Evaluated
    /\ HoldsVAECriterion
    /\ \E kl \in KLTerms,
          e \in [1..criterion.num_samples ->
                    [Batch -> [VisibleDims -> {-1, 0}]]] :
          call' = [op |-> "VAECriterion.expr", kl_divergence_term |-> kl,
                   expectation |-> e,
                   result |-> VAECriterion_expr(criterion, kl, e)]
    /\ UNCHANGED <<vae, component, prior, criterion, klass, layer>>

\* The monitor evaluates criterion.get_monitoring_channels(model, data).
CallGetMonitoringChannels ==
    /\ ~Evaluated
    /\ HoldsVAECriterion
    /\ \E kl \in KLTerms,
          e \in [1..criterion.num_samples ->
                    [Batch -> [VisibleDims -> {-1, 0}]]] :
          call' = [op |-> "VAECriterion.get_monitoring_channels",
                   kl_divergence_term |-> kl, expectation |-> e,
                   result |-> VAECriterion_get_monitoring_channels(
                                 criterion, kl, e)]
    /\ UNCHANGED <<vae, component, prior, criterion, klass, layer>>

NextCost ==
    \/ NewVAECriterion
    \/ NewImportanceSamplingCriterion
    \/ CallExpr
    \/ CallGetMonitoringChannels

SpecCost == Init /\ [][NextCost]_vars

(***************************************************************************)
(* Claims on the criteria                                                  *)
(***************************************************************************)

\* The expectation term of example b, from the collaborator's tensor: the
\* sum over the visible dimensions of the mean over the samples, times the
\* number of samples.
RECURSIVE TotalExpectation(_, _, _, _)
TotalExpectation(e, b, s, d) ==
    IF s > Len(e) THEN 0
    ELSE IF d > Len(e[s][b]) THEN TotalExpectation(e, b, s + 1, 1)
    ELSE e[s][b][d] + TotalExpectation(e, b, s, d + 1)

\* C4: the lower bound is, per example, expectation_term - kl_divergence_term,
\* and get_monitoring_channels publishes the means of these two terms, so
\* that 'expectation_term' - 'kl_divergence' is the mean lower bound, the
\* negative of what expr returns.
C4_MonitoringDecomposes ==
    /\ call.op = "VAECriterion.expr" =>
          /\ call.result.exc = None
          /\ \A b \in Batch :
                call.result.lower_bound[b] =
                   Rat(TotalExpectation(call.expectation, b, 1, 1)
                       - Len(call.expectation) * call.kl_divergence_term[b],
                       Len(call.expectation))
    /\ call.op = "VAECriterion.get_monitoring_channels" =>
          /\ call.result.exc = None
          /\ RSub(call.result.channels.expectation_term,
                  call.result.channels.kl_divergence)
             = RSub(Zero, VAECriterion_expr(criterion, call.kl_divergence_term,
                                            call.expectation).value)

IsConstructorCall ==
    call.op \in {"VAECriterion.__init__", "ImportanceSamplingCriterion.__init__"}

\* C5: a criterion is constructed exactly when num_samples >= 1; num_samples
\* below 1, a fraction included, fails, and a constructed criterion holds the
\* integer part of num_samples, an integer >= 1.
C5_NumSamplesAtLeastOne ==
    /\ criterion # NoCriterion =>
          criterion.num_samples \in Nat /\ criterion.num_samples >= 1
    /\ IsConstructorCall =>
          LET q == call.num_samples
          IN  IF q[1] < q[2]
              THEN call.exc = "AssertionError"
              ELSE /\ call.exc = None
                   /\ criterion.class \o ".__init__" = call.op
                   /\ criterion.num_samples * q[2] <= q[1]
                   /\ q[1] < (criterion.num_samples + 1) * q[2]

\* C5's case: a fraction below 1 was refused after a fraction above 1 had
\* been accepted and truncated.
C5_Witness ==
    /\ call.op = "ImportanceSamplingCriterion.__init__"
    /\ call.num_samples = <<1, 2>>
    /\ call.exc = "AssertionError"
    /\ HoldsVAECriterion
    /\ criterion.num_samples = 1

(***************************************************************************)
(* Claims on log_sum_exp and the importance sampling approximation         *)
(***************************************************************************)

\* C7: with num_samples = 1 the approximation is, for every example,
\* log_p_z + log_p_x_given_z - log_q_z_given_x of the one sample: log_sum_exp
\* over an axis of length 1 returns its input and log(1) is 0.
C7_SingleSample ==
    /\ call.op = "log_likelihood_approximation" /\ call.num_samples = 1 =>
          \A b \in Batch :
             call.result[b] =
                LogOfInt(call.log_p_z[1][b] + call.log_p_x_z[1][b]
                         - call.log_q_z_x[1][b])
    /\ call.op = "log_sum_exp" =>
          \A j \in DOMAIN call.result :
             LET v == Slices(call.A, call.axis)[j]
             IN  Len(v) = 1 => call.result[j].value = LogOfInt(v[1])
    /\ Log(FromInt(1)) = LogOfInt(0)

\* C7's case: one sample, of a large magnitude, was approximated.
C7_Witness ==
    /\ call.op = "log_likelihood_approximation"
    /\ call.num_samples = 1
    /\ call.log_p_x_z[1][1] = -Big
    /\ call.log_p_z[1][1] = -1
    /\ call.log_q_z_x[1][2] = -1

\* C8: along every reduced slice, whatever the magnitude of A, what exp is
\* applied to is <= 0 and once exactly 0, so that exp returns finite values
\* <= 1; these are the same for A and for A + c, and log_sum_exp(A + c) is
\* log_sum_exp(A) + c.
C8_ShiftedExp ==
    call.op = "log_sum_exp" =>
        \A j \in DOMAIN call.result :
            LET r == call.result[j]
            IN  /\ \A i \in DOMAIN r.args : r.args[i] <= 0
                /\ \E i \in DOMAIN r.args : r.args[i] = 0
                /\ \A i \in DOMAIN r.exps :
                      r.exps[i] # Inf /\ RLeq(r.exps[i], One)
                /\ r.value.frac # Inf
                /\ call.shifted[j].args = r.args
                /\ call.shifted[j].exps = r.exps
                /\ call.shifted[j].value = LogPlusInt(r.value, call.c[j])

\* C8's case: a slice holds a large and a small value, and is shifted by a
\* large constant.
C8_Witness ==
    /\ call.op = "log_sum_exp"
    /\ call.axis = 0
    /\ Len(call.A) = 2
    /\ call.A[1][1] = Big
    /\ call.A[2][1] = -Big
    /\ call.c[1] = Big

(***************************************************************************)
(* Claims on the KL divergence                                             *)
(***************************************************************************)

IsKLCall == call.op \in {"kl_divergence", "per_component_kl_divergence"}
Compatible ==
    /\ isinstance(call.prior, prior_class)
    /\ isinstance(call.posterior, posterior_class)

\* C3: a KL computation with a prior that is no DiagonalGaussianPrior or a
\* posterior that is no DiagonalGaussianPosterior returns no expression and
\* raises a ValueError whose message names the class of the object passed
\* and the class expected for that role.
C3_MismatchNamesBothClasses ==
    IsKLCall /\ ~Compatible =>
        /\ call.result.exc.type = "ValueError"
        /\ "value" \notin DOMAIN call.result
        /\ IF ~isinstance(call.prior, prior_class)
           THEN /\ call.result.exc.passed = str_class(call.prior)
                /\ call.result.exc.expected = str_class(prior_class)
           ELSE /\ call.result.exc.passed = str_class(call.posterior)
                /\ call.result.exc.expected = str_class(posterior_class)

\* The closed form of the claim for one latent dimension, cleared of its
\* denominators: v = pls' - pls + 0.5 * (4^pls + (mu - mu')^2) / 4^pls' - 0.5
\* (primed: the prior's), both sides times 2 * 4^K.
ClosedFormTimes(K, mu, pls, prior_mu_i, prior_pls) ==
    2 * (4^K) * (prior_pls - pls)
    + 4^(K + pls - prior_pls)
    + ((mu - prior_mu_i) ^ 2) * 4^(K - prior_pls)
    - 4^K

\* An exponent K that makes every power of 4 above an integer.
ClearingExponent ==
    LET hi == CHOOSE m \in LogSigmas : \A x \in LogSigmas : x <= m
        lo == CHOOSE m \in LogSigmas : \A x \in LogSigmas : m <= x
    IN  Abs(hi) + Abs(lo)

\* Whether the rational v is 1 / (2 * 4^K) times the integer m.
IsScaled(v, K, m) == v[1] * 2 * (4^K) = v[2] * m

RECURSIVE SumClosedForm(_, _, _, _)
SumClosedForm(K, b, i, c) ==
    IF i > nhid THEN 0
    ELSE ClosedFormTimes(K, c.phi[1][b][i], c.phi[2][b][i],
                         c.theta[1][i], c.theta[2][i])
         + SumClosedForm(K, b, i + 1, c)

PosteriorIsPrior(b) ==
    /\ call.phi[1][b] = call.theta[1]
    /\ call.phi[2][b] = call.theta[2]

\* C9: for a diagonal gaussian pair, per_component_kl_divergence is the closed
\* form in every latent dimension, kl_divergence is its sum over the latent
\* axis, and both are 0 where the posterior equals the prior.
C9_ClosedFormKL ==
    IsKLCall /\ Compatible =>
        LET K == ClearingExponent
        IN  /\ call.result.exc.type = None
            /\ DOMAIN call.result.value = Examples
            /\ \A b \in Examples :
                 IF call.op = "per_component_kl_divergence"
                 THEN /\ DOMAIN call.result.value[b] = LatentDims
                      /\ \A i \in LatentDims :
                           /\ IsScaled(call.result.value[b][i], K,
                                 ClosedFormTimes(K, call.phi[1][b][i],
                                     call.phi[2][b][i], call.theta[1][i],
                                     call.theta[2][i]))
                           /\ PosteriorIsPrior(b) =>
                                 call.result.value[b][i] = Zero
                 ELSE /\ IsScaled(call.result.value[b], K,
                                  SumClosedForm(K, b, 1, call))
                      /\ PosteriorIsPrior(b) => call.result.value[b] = Zero

\* C9's case: the total KL was computed of a posterior that equals a prior
\* with a mean and a log-sigma other than 0.
C9_Witness ==
    /\ call.op = "kl_divergence"
    /\ Compatible
    /\ PosteriorIsPrior(1)
    /\ call.theta[1][1] = 1
    /\ call.theta[2][1] = 1
    /\ call.theta[2][nhid] = -1

(***************************************************************************)
(* Claims on the lifecycle                                                 *)
(***************************************************************************)

\* A step that is a call of p.set_vae(v).
IsSetVaeStep(p) ==
    /\ vars' # vars
    /\ call'.op = "Prior.set_vae"
    /\ call'.self = p

\* C1: a Prior is attached to one VAE only.  A set_vae on an unbound Prior
\* succeeds and makes get_vae return its argument; a set_vae on a bound Prior
\* raises the already-belongs error and leaves vae, rng, theano_rng and
\* batch_size as they were; and no step changes these four attributes of a
\* bound Prior, so get_vae keeps returning the first VAE attached.
C1_SetVaeOnce ==
    [][\A p \in Priors :
          /\ get_vae(prior[p]) # None => prior'[p] = prior[p]
          /\ IsSetVaeStep(p) =>
                IF get_vae(prior[p]) = None
                THEN /\ call'.exc = None
                     /\ get_vae(prior'[p]) = call'.vae
                ELSE /\ call'.exc = AlreadyBound
                     /\ prior'[p] = prior[p]]_vars

\* C1's case: a bound Prior was handed another VAE and refused it.
C1_Witness ==
    /\ call.op = "Prior.set_vae"
    /\ call.exc = AlreadyBound
    /\ get_vae(prior[call.self]) # call.vae

HasDuplicate(s) == \E i, j \in 1..Len(s) : i # j /\ s[i] = s[j]

\* The constructions that reached the name check: both components attached.
ReachedNameCheck(v) == "_params" \in DOMAIN vae[v]

\* C2: a construction that reaches the name check fails exactly when two of
\* latent.get_params() + visible.get_params() share a name, wherever the two
\* come from, and _params is the encoder's parameters followed by the
\* decoder's.
C2_UniqueNames ==
    /\ \A v \in VAEIds :
          ReachedNameCheck(v) =>
             LET names == get_params(vae[v].latent) \o get_params(vae[v].visible)
             IN  /\ vae[v]._params = names
                 /\ vae[v]._encoding_params = get_params(vae[v].latent)
                 /\ vae[v]._decoding_params = get_params(vae[v].visible)
                 /\ HasDuplicate(names) <=> vae[v].status = "failed"
                 /\ ~HasDuplicate(names) <=> vae[v].status = "constructed"
    /\ call.op = "VAE.__init__" /\ ReachedNameCheck(call.self) =>
          (call.exc # None <=> HasDuplicate(vae[call.self]._params))

\* C2's case: a construction failed on a name that the encoder and the
\* decoder share, each being free of duplicates on its own.
C2_Witness ==
    \E v \in VAEIds :
        /\ ReachedNameCheck(v)
        /\ vae[v].status = "failed"
        /\ ~HasDuplicate(vae[v]._encoding_params)
        /\ ~HasDuplicate(vae[v]._decoding_params)

\* A step that is an evaluation of VAE(..., visible, latent, ...).
IsNewVAEStep == vars' # vars /\ call'.op = "VAE.__init__"

\* The components of the step's construction that are attached already.
AttachedBefore(c) == component[c].vae # Unset

\* C15: VAE.__init__ attaches visible and then latent before the name check
\* and a failure of the name check does not undo it: the two components of a
\* construction that failed at the name check are attached to the failed VAE,
\* and a construction handed a component that is attached already raises the
\* already-bound error and leaves that component attached where it was.
C15_FailureKeepsBinding ==
    /\ [](\A v \in VAEIds :
            ReachedNameCheck(v) /\ vae[v].status = "failed" =>
               /\ component[vae[v].visible].vae = v
               /\ component[vae[v].latent].vae = v)
    /\ [][IsNewVAEStep =>
            \A c \in {call'.visible, call'.latent} :
               AttachedBefore(c) =>
                  /\ call'.exc = "RuntimeError: already bound"
                  /\ vae'[call'.self].status = "failed"
                  /\ component'[c] = component[c]]_vars

\* C15's case: a construction was refused because one of its components is
\* still attached to a VAE whose construction failed at the name check.
C15_Witness ==
    /\ call.op = "VAE.__init__"
    /\ call.exc = "RuntimeError: already bound"
    /\ \E c \in {call.visible, call.latent} :
          /\ component[c].vae \in VAEIds \ {call.self}
          /\ ReachedNameCheck(component[c].vae)
          /\ vae[component[c].vae].status = "failed"

(***************************************************************************)
(* prior.py: DiagonalGaussianPrior, its parameters and whether they are    *)
(* learned.  A Prior object is the record of the attributes assigned to it *)
(* so far.                                                                 *)
(***************************************************************************)

NoObject == [class |-> None]
hasattr(obj, attr) == attr \in DOMAIN obj

\* def __init__(self, learn_prior=True)
learn_prior_default == "True"
truth(value) == value = "True"
NhidArgs == 0..nhid

\* sharedX(numpy.zeros(n), name=name)
sharedX_zeros(n, name) == [name |-> name, value |-> [i \in 1..n |-> 0]]

\* Prior.__init__(self, learn_prior)
Prior__init__(learn_prior) ==
    [class |-> "DiagonalGaussianPrior",
     learn_prior |-> ArgOr(learn_prior, learn_prior_default)]

\* initialize_parameters with the two tensors in _params whatever
\* learn_prior is.
initialize_parameters_always_learnt(self, n) ==
    LET prior_mu == sharedX_zeros(n, "prior_mu")
        log_prior_sigma == sharedX_zeros(n, "prior_log_sigma")
    IN  [class |-> self.class, learn_prior |-> self.learn_prior,
         nhid |-> n, prior_mu |-> prior_mu,
         log_prior_sigma |-> log_prior_sigma,
         _params |-> <<prior_mu, log_prior_sigma>>]

\* DiagonalGaussianPrior.initialize_parameters(self, nhid): the object
\* afterwards.
initialize_parameters(self, n) ==
    LET prior_mu == sharedX_zeros(n, "prior_mu")
        log_prior_sigma == sharedX_zeros(n, "prior_log_sigma")
    IN  [class |-> self.class, learn_prior |-> self.learn_prior,
         nhid |-> n, prior_mu |-> prior_mu,
         log_prior_sigma |-> log_prior_sigma,
         _params |-> IF truth(self.learn_prior)
                     THEN <<>> \o <<prior_mu, log_prior_sigma>>
                     ELSE <<>>]

\* DiagonalGaussianPrior.get_prior_theta(self): the pair returned, or the
\* exception of reading an attribute that was never assigned.
get_prior_theta(self) ==
    IF ~hasattr(self, "prior_mu")
    THEN [result |-> None,
          exc |-> "AttributeError: object has no attribute 'prior_mu'"]
    ELSE [result |-> <<self.prior_mu, self.log_prior_sigma>>, exc |-> None]

InitPrior ==
    /\ vae = [v \in VAEIds |-> UnbornVAE]
    /\ component = [c \in Components |-> UnboundComponent]
    /\ prior = [p \in Priors |-> NoObject]
    /\ InitIdle

\* A caller evaluates DiagonalGaussianPrior(learn_prior) or
\* DiagonalGaussianPrior().
NewDiagonalGaussianPrior ==
    \E p \in Priors, learn_prior \in Optional :
        /\ prior[p] = NoObject
        /\ prior' = [prior EXCEPT ![p] = Prior__init__(learn_prior)]
        /\ call' = [op |-> "Prior.__init__", self |-> p, exc |-> None]
        /\ UNCHANGED <<vae, component, criterion, klass, layer>>

\* A caller evaluates p.initialize_parameters(n), for the first time or again.
CallInitializeParameters ==
    \E p \in Priors, n \in NhidArgs :
        /\ prior[p] # NoObject
        /\ prior' = [prior EXCEPT ![p] = initialize_parameters(prior[p], n)]
        /\ call' = [op |-> "initialize_parameters", self |-> p, nhid |-> n,
                    exc |-> None]
        /\ UNCHANGED <<vae, component, criterion, klass, layer>>

\* A caller evaluates p.get_prior_theta().
CallGetPriorTheta ==
    \E p \in Priors :
        /\ prior[p] # NoObject
        /\ LET r == get_prior_theta(prior[p])
           IN  call' = [op |-> "get_prior_theta", self |-> p,
                        result |-> r.result, exc |-> r.exc]
        /\ UNCHANGED <<vae, component, prior, criterion, klass, layer>>

NextPrior ==
    \/ NewDiagonalGaussianPrior
    \/ CallInitializeParameters
    \/ CallGetPriorTheta

SpecPrior == InitPrior /\ [][NextPrior]_vars

(***************************************************************************)
(* Claims on the prior                                                     *)
(***************************************************************************)

Initialized(p) == hasattr(prior[p], "_params")

\* C11: whether the prior is learned is the flag learn_prior.  Once
\* initialize_parameters(n) has run, prior_mu and log_prior_sigma are vectors
\* of n zeros, _params is exactly the two of them when learn_prior is true and
\* is empty when it is false, and get_prior_theta() returns the pair
\* (prior_mu, log_prior_sigma) in both cases.
C11_LearnPriorFlag ==
    /\ \A p \in Priors :
          Initialized(p) =>
             LET self == prior[p]
             IN  /\ self.nhid \in NhidArgs
                 /\ self.prior_mu.value = [i \in 1..self.nhid |-> 0]
                 /\ self.log_prior_sigma.value = [i \in 1..self.nhid |-> 0]
                 /\ self.learn_prior = "True" =>
                       self._params = <<self.prior_mu, self.log_prior_sigma>>
                 /\ self.learn_prior = "False" => self._params = <<>>
                 /\ self.learn_prior \in {"True", "False"}
    /\ call.op = "initialize_parameters" =>
          /\ Initialized(call.self)
          /\ prior[call.self].nhid = call.nhid
    /\ call.op = "get_prior_theta" /\ Initialized(call.self) =>
          /\ call.exc = None
          /\ call.result = <<prior[call.self].prior_mu,
                             prior[call.self].log_prior_sigma>>

\* C11's case: of two initialized priors of non-zero length one is learned
\* and one is not, and get_prior_theta was called on the one that is not.
C11_Witness ==
    /\ call.op = "get_prior_theta"
    /\ Initialized(call.self)
    /\ prior[call.self].learn_prior = "False"
    /\ prior[call.self].nhid > 0
    /\ \E p \in Priors :
          /\ Initialized(p)
          /\ prior[p].learn_prior = "True"
          /\ prior[p].nhid > 0

(***************************************************************************)
(* mlp_hook.py: the metaclass RNNWrapper.  A method is the function a      *)
(* class body defined ("orig" is the class that defined it) under "depth"  *)
(* applications of its wrapper.  A class is the dct handed to type.__new__.*)
(* A layer object is the record of the attributes assigned to it; reading  *)
(* an attribute it does not have reads the attribute of its class.         *)
(***************************************************************************)

\* wrappers: the attributes of RNNWrapper that end in _wrapper, without it.
wrappers == {"fprop", "set_input_space", "get_output_space"}

NoneMethod == [depth |-> 0, orig |-> None]

\* A class body: the methods among the wrapped ones it defines (none, fprop
\* alone, all of them), and the value it gives rnn_friendly, if any.
Bodies == [methods : {{}, {"fprop"}, wrappers},
           rnn_friendly : {Omitted, "True"}]

\* getattr(base, wrapper, None); object has none of the wrapped methods.
getattr_base(base, wrapper) ==
    IF base = "object" THEN NoneMethod ELSE klass[base].dct[wrapper]

\* for base in bases: method = getattr(base, wrapper, None); break at the
\* first that is not None.  bases is not empty.
RECURSIVE method_of_bases(_, _, _)
method_of_bases(bases, i, wrapper) ==
    LET method == getattr_base(bases[i], wrapper)
    IN  IF method # NoneMethod \/ i = Len(bases) THEN method
        ELSE method_of_bases(bases, i + 1, wrapper)

\* getattr(cls, wrapper + '_wrapper')(method): the closure outer around
\* method; functools.wraps(None) raises.
apply_wrapper(method) == [depth |-> method.depth + 1, orig |-> method.orig]

\* RNNWrapper.__new__(cls, name, bases, dct): the class created, or the
\* exception raised.
RNNWrapper__new__(name, bases, body) ==
    LET method(w) == IF w \notin body.methods
                     THEN method_of_bases(bases, 1, w)
                     ELSE [depth |-> 0, orig |-> name]
    IN  IF \E w \in wrappers : method(w) = NoneMethod
        THEN [class |-> NoClass,
              exc |-> "AttributeError: 'NoneType' object has no attribute '__module__'"]
        ELSE [class |->
                [name |-> name, bases |-> bases,
                 dct |-> [fprop |-> apply_wrapper(method("fprop")),
                          set_input_space |->
                              apply_wrapper(method("set_input_space")),
                          get_output_space |->
                              apply_wrapper(method("get_output_space")),
                          rnn_friendly |-> "False",
                          _sequence_space |-> "False"]],
              exc |-> None]

\* self.attr: the attribute of the object, else of its class.
getattr_layer(self, attr) ==
    IF hasattr(self, attr) THEN self[attr] ELSE klass[self.class].dct[attr]

\* Spaces.  A SequenceSpace holds the space of one time step.
VectorSpace == [kind |-> "VectorSpace"]
SequenceSpace(space) == [kind |-> "SequenceSpace", space |-> space]
IsSequenceSpace(space) == space.kind = "SequenceSpace"
Spaces == {VectorSpace, SequenceSpace(VectorSpace)}

\* Shapes of tensors: (T, B), (T, B, d), (T, B, d, d').
Shapes == {<<2, 3>>, <<2, 3, 5>>, <<3, 2, 5, 7>>}
OutDims == <<11>>

RECURSIVE Product(_)
Product(shape) ==
    IF shape = <<>> THEN 1 ELSE Head(shape) * Product(Tail(shape))

\* x.reshape(shape) of a tensor of shape from.
reshape(from, shape) ==
    IF Product(from) = Product(shape)
    THEN [result |-> shape, exc |-> None]
    ELSE [result |-> <<>>, exc |-> "ValueError: total size of new array must be unchanged"]

\* The methods the class bodies define.  set_input_space keeps the space and
\* derives the output space of one application of the layer from it;
\* get_output_space returns it; fprop maps a batch of N inputs to a batch of
\* N outputs of shape OutDims.
orig_set_input_space(self, space) ==
    [input_space |-> space,
     output_space |-> IF IsSequenceSpace(space)
                      THEN SequenceSpace(VectorSpace) ELSE VectorSpace] @@ self

orig_get_output_space(self) ==
    IF hasattr(self, "output_space")
    THEN [result |-> self.output_space, exc |-> None]
    ELSE [result |-> NoClass,
          exc |-> "AttributeError: object has no attribute 'output_space'"]

orig_fprop(self, state_below) ==
    [received |-> state_below, result |-> <<Head(state_below)>> \o OutDims,
     exc |-> None]

NoShape == <<>>

\* outer of fprop_wrapper, for the method of depth k: the shape the function
\* of the class body received, the shape returned, the exception raised.
RECURSIVE fprop_outer(_, _, _)
fprop_outer(self, state_below, k) ==
    IF k = 0 THEN orig_fprop(self, state_below)
    ELSE IF truth(getattr_layer(self, "_sequence_space"))
    THEN IF Len(state_below) < 2
         THEN [received |-> NoShape, result |-> NoShape,
               exc |-> "IndexError: shape[1] of a tensor of one dimension"]
         ELSE
         LET input_shape == <<state_below[1] * state_below[2]>>
                            \o SubSeq(state_below, 3, Len(state_below))
             reshaped_state_below == reshape(state_below, input_shape)
             state == fprop_outer(self, reshaped_state_below.result, k - 1)
             output_shape == <<state_below[1], state_below[2]>>
                             \o Tail(state.result)
             reshaped_state == reshape(state.result, output_shape)
         IN  IF state.exc # None THEN state
             ELSE [received |-> state.received,
                   result |-> reshaped_state.result,
                   exc |-> reshaped_state.exc]
    ELSE fprop_outer(self, state_below, k - 1)

\* outer of set_input_space_wrapper, for the method of depth k: the object
\* afterwards.
RECURSIVE set_input_space_outer(_, _, _)
set_input_space_outer(self, space, k) ==
    IF k = 0 THEN orig_set_input_space(self, space)
    ELSE IF IsSequenceSpace(space)
            /\ ~truth(getattr_layer(self, "rnn_friendly"))
    THEN set_input_space_outer([_sequence_space |-> "True"] @@ self,
                               space.space, k - 1)
    ELSE set_input_space_outer(self, space, k - 1)

\* outer of get_output_space_wrapper without the test of the space returned.
RECURSIVE get_output_space_outer_untested(_, _)
get_output_space_outer_untested(self, k) ==
    IF k = 0 THEN orig_get_output_space(self)
    ELSE LET inner == get_output_space_outer_untested(self, k - 1)
         IN  IF inner.exc # None THEN inner
             ELSE IF truth(getattr_layer(self, "_sequence_space"))
             THEN [result |-> SequenceSpace(inner.result), exc |-> None]
             ELSE inner

\* outer of get_output_space_wrapper, for the method of depth k: the space
\* returned, the exception raised.
RECURSIVE get_output_space_outer(_, _)
get_output_space_outer(self, k) ==
    IF k = 0 THEN orig_get_output_space(self)
    ELSE LET inner == get_output_space_outer(self, k - 1)
         IN  IF inner.exc # None THEN inner
             ELSE IF truth(getattr_layer(self, "_sequence_space"))
                     /\ ~IsSequenceSpace(inner.result)
             THEN [result |-> SequenceSpace(inner.result), exc |-> None]
             ELSE inner

\* layer.fprop(state_below), layer.set_input_space(space),
\* layer.get_output_space(): the method found in the class of the layer.
fprop(self, state_below) ==
    fprop_outer(self, state_below, klass[self.class].dct.fprop.depth)
set_input_space(self, space) ==
    set_input_space_outer(self, space,
                          klass[self.class].dct.set_input_space.depth)
get_output_space(self) ==
    get_output_space_outer(self, klass[self.class].dct.get_output_space.depth)

Created(c) == klass[c] # NoClass

\* The next class to be created.
FreshClass(c) ==
    /\ ~Created(c)
    /\ \A i \in 1..MaxClasses :
          ("class" \o ToString(i)) # c /\ ~Created("class" \o ToString(i))
             => \E j \in 1..(i - 1) : ("class" \o ToString(j)) = c

\* A class statement with the metaclass RNNWrapper is executed; its base is
\* object or a class created before.
NewClass ==
    \E c \in ClassIds, base \in ClassIds \cup {"object"}, body \in Bodies :
        /\ FreshClass(c)
        /\ base \in ClassIds => Created(base)
        /\ LET r == RNNWrapper__new__(c, <<base>>, body)
           IN  /\ klass' = IF r.exc = None
                           THEN [klass EXCEPT ![c] = r.class] ELSE klass
               /\ call' = [op |-> "RNNWrapper.__new__", name |-> c,
                           bases |-> <<base>>, body |-> body, exc |-> r.exc]
        /\ UNCHANGED <<vae, component, prior, criterion, layer>>

\* A layer is instantiated.
NewLayer ==
    /\ layer = NoLayer
    /\ \E c \in ClassIds :
        /\ Created(c)
        /\ layer' = [class |-> c]
        /\ call' = [op |-> "Layer.__init__", class |-> c, exc |-> None]
    /\ UNCHANGED <<vae, component, prior, criterion, klass>>

\* A caller evaluates layer.set_input_space(space).
CallSetInputSpace ==
    /\ layer # NoLayer
    /\ \E space \in Spaces :
        /\ layer' = set_input_space(layer, space)
        /\ call' = [op |-> "set_input_space", space |-> space, exc |-> None]
    /\ UNCHANGED <<vae, component, prior, criterion, klass>>

\* A caller evaluates layer.fprop(state_below).
CallFprop ==
    /\ layer # NoLayer
    /\ \E state_below \in Shapes :
        LET r == fprop(layer, state_below)
        IN  call' = [op |-> "fprop", state_below |-> state_below,
                     received |-> r.received, result |-> r.result,
                     exc |-> r.exc]
    /\ UNCHANGED <<vae, component, prior, criterion, klass, layer>>

\* A caller evaluates layer.get_output_space().
CallGetOutputSpace ==
    /\ layer # NoLayer
    /\ LET r == get_output_space(layer)
       IN  call' = [op |-> "get_output_space", result |-> r.result,
                    exc |-> r.exc]
    /\ UNCHANGED <<vae, component, prior, criterion, klass, layer>>

NextRNN ==
    \/ NewClass
    \/ NewLayer
    \/ CallSetInputSpace
    \/ CallFprop
    \/ CallGetOutputSpace

SpecRNN == Init /\ [][NextRNN]_vars

(***************************************************************************)
(* Claims on the metaclass                                                 *)
(***************************************************************************)

\* The layer reads its _sequence_space flag as set.
SequenceFlag == layer # NoLayer /\ truth(getattr_layer(layer, "_sequence_space"))

\* How many wrappers the layer's method has around the function of a class
\* body.
DepthOf(wrapper) == klass[layer.class].dct[wrapper].depth

\* C12: fprop on a layer whose _sequence_space flag is set, with an input of
\* shape (T, B, d...), hands the function of the class body the shape
\* (T*B, d...), the first two axes merged once, and returns the shape
\* (T, B, out...), in every class created with the metaclass, a class that
\* inherits fprop from a wrapped base included.
C12_FpropMergesOnce ==
    call.op = "fprop" /\ SequenceFlag /\ Len(call.state_below) >= 3 =>
       LET x == call.state_below
       IN  /\ call.exc = None
           /\ call.received = <<x[1] * x[2]>> \o SubSeq(x, 3, Len(x))
           /\ call.result = <<x[1], x[2]>> \o OutDims

\* C13: get_output_space on a layer whose _sequence_space flag is set returns
\* SequenceSpace(s), s being the output space the function of the class body
\* returns and no SequenceSpace itself, whatever the number of wrappers
\* around that function; on a layer whose flag is not set it returns s.
C13_SequenceSpaceOnce ==
    call.op = "get_output_space" /\ call.exc = None =>
       LET s == orig_get_output_space(layer).result
       IN  IF SequenceFlag
           THEN /\ call.result = SequenceSpace(s)
                /\ ~IsSequenceSpace(s)
           ELSE call.result = s

\* C13's case: the flag is set and get_output_space went through the wrapper
\* of the class and the wrappers of two classes above it.
C13_Witness ==
    /\ call.op = "get_output_space"
    /\ call.exc = None
    /\ SequenceFlag
    /\ DepthOf("get_output_space") >= 3
    /\ call.result = SequenceSpace(VectorSpace)

\* C14: rnn_friendly = False and _sequence_space = False are defaults of a
\* class created with the metaclass: a class whose body does not define
\* rnn_friendly has rnn_friendly = False, every class has
\* _sequence_space = False, and a class whose body defines
\* rnn_friendly = True has rnn_friendly = True once created.
C14_DefaultsOnly ==
    call.op = "RNNWrapper.__new__" /\ call.exc = None =>
       LET dct == klass[call.name].dct
       IN  /\ dct._sequence_space = "False"
           /\ call.body.rnn_friendly = Omitted => dct.rnn_friendly = "False"
           /\ call.body.rnn_friendly = "True" => dct.rnn_friendly = "True"

====
